---- MODULE Spec2Model ----
(***************************************************************************)
(* BreakoutStore (rath-client, pages/breakout/store.tsx): the reactive     *)
(* analysis pipeline.  Three inputs (mainField, mainFieldFilters,          *)
(* comparisonFilters) feed five subscriptions.  Every subscription is a    *)
(* cold rxjs pipeline, so each one owns its reactions on the inputs, its   *)
(* combineLatest buffer and its throttleTime(200, leading, trailing)       *)
(* timer; the comparisonAnalyses$ subscription owns three of them, one per *)
(* source of comparisonBase$.  Time is counted in milliseconds and         *)
(* advances in steps of TickMs.                                            *)
(***************************************************************************)
EXTENDS Integers, Sequences, FiniteSets, TLC

NULL == [null |-> TRUE]

Min(a, b) == IF a < b THEN a ELSE b
Max(a, b) == IF a < b THEN b ELSE a
Abs(a) == IF a < 0 THEN 0 - a ELSE a

(***************************************************************************)
(* The dataset and the field metadata handed to the constructor.           *)
(***************************************************************************)
data ==
    << [f |-> 10, g |-> "a"], [f |-> 20, g |-> "a"],
       [f |-> 30, g |-> "b"], [f |-> 40, g |-> "b"] >>

fields ==
    << [fid |-> "f", name |-> "F", semanticType |-> "quantitative"],
       [fid |-> "g", name |-> "G", semanticType |-> "nominal"] >>

FLow == [fid |-> "f", lo |-> 0, hi |-> 25]
FHigh == [fid |-> "f", lo |-> 15, hi |-> 40]

\* the arrays a caller passes to setMainFieldFilters / setComparisonFilters
FilterSets == { <<>>, <<FLow>>, <<FHigh>> }

\* the arguments a caller passes to setMainField
MainFields == { NULL, [fid |-> "f", aggregator |-> "mean"] }

\* a main field and a filter citing a fid that is not in fields
UnknownField == [fid |-> "zz", aggregator |-> "mean"]
FUnknown == [fid |-> "zz", lo |-> 0, hi |-> 25]

WideMainFields == MainFields \cup { UnknownField }
WideFilterSets == FilterSets \cup { <<FUnknown>>, <<FHigh, FUnknown, FLow>> }

Snapshots ==
    [mainField : MainFields, mainFieldFilters : FilterSets, comparisonFilters : FilterSets]

ThrottleMs == 200
ThrottleLeadingOff == FALSE
ThrottleLeading == TRUE
ThrottleTrailingOff == FALSE
ThrottleTrailing == TRUE

TickMs == ThrottleMs \div 2

BurstCalls == 10

\* the number of setter calls in one run
MaxCalls == 3

\* the number of setter calls in one run with unknown fids and export()
WideCalls == 2

\* the number of setter calls in one run in which stage functions may throw
FaultCalls == 2

\* the length of the row sequences applyDividers is applied to
MaxRows == 3

\* the number of setter calls made before a burst
WarmupCalls == 2

(***************************************************************************)
(* The collaborators of the store: field lookup, filtering, statistics and *)
(* the two analyzers.                                                      *)
(***************************************************************************)
FieldIndex(fieldMetas, fid) ==
    LET hits == { i \in 1..Len(fieldMetas) : fieldMetas[i].fid = fid }
    IN  IF hits = {} THEN 0 ELSE CHOOSE i \in hits : \A j \in hits : i <= j

\* the main fields that stand for a derived measure, each with the fid of
\* the field it statistically targets; any other main field targets the
\* field of its own fid
DerivedTargets == [d |-> "f"]

TargetFid(fid) == IF fid \in DOMAIN DerivedTargets THEN DerivedTargets[fid] ELSE fid

resolveCompareTarget(mf, fieldMetas) ==
    LET i == FieldIndex(fieldMetas, TargetFid(mf.fid))
    IN  IF i = 0 THEN NULL ELSE [field |-> fieldMetas[i]]

\* the value of a row for a field; a row has no value for a fid it lacks
RowValue(row, fid) == IF fid \in DOMAIN row THEN row[fid] ELSE NULL

\* the columns of the dataset whose values are numbers
NumericColumns == { "f" }

IsNumber(row, fid) == fid \in DOMAIN row /\ fid \in NumericColumns

FilterPasses(row, filter) ==
    /\ IsNumber(row, filter.fid)
    /\ filter.lo <= RowValue(row, filter.fid)
    /\ RowValue(row, filter.fid) <= filter.hi

RowMatches(row, filters) ==
    \A i \in 1..Len(filters) : FilterPasses(row, filters[i])

applyDividersAnyFilter(rows, filters) ==
    << SelectSeq(rows, LAMBDA r : \E i \in 1..Len(filters) : FilterPasses(r, filters[i])),
       SelectSeq(rows, LAMBDA r : ~\E i \in 1..Len(filters) : FilterPasses(r, filters[i])) >>

applyDividers(rows, filters) ==
    << SelectSeq(rows, LAMBDA r : RowMatches(r, filters)),
       SelectSeq(rows, LAMBDA r : ~RowMatches(r, filters)) >>

RECURSIVE SumOf(_, _)
SumOf(rows, fid) ==
    IF Len(rows) = 0 THEN 0
    ELSE (IF IsNumber(Head(rows), fid) THEN RowValue(Head(rows), fid) ELSE 0)
         + SumOf(Tail(rows), fid)

CountOf(rows, fid) ==
    Len(SelectSeq(rows, LAMBDA r : IsNumber(r, fid)))

Aggregate(rows, fid) ==
    LET s == SumOf(rows, fid)
        n == CountOf(rows, fid)
    IN  [mean |-> IF n = 0 THEN 0 ELSE s \div n, sum |-> s, count |-> n]

AggValue(stats, aggregator) ==
    IF aggregator = "mean" THEN stats.mean
    ELSE IF aggregator = "sum" THEN stats.sum ELSE stats.count

statDivision(fullData, subsetData, fieldMetas, targetFid) ==
    Aggregate(subsetData, targetFid)

RowsWith(rows, fid, v) == SelectSeq(rows, LAMBDA r : RowValue(r, fid) = v)

\* the candidate buckets: every distinct value of every nominal field other
\* than the main field, taken over the rows of both populations
Buckets(rows, fieldMetas, mf) ==
    { [fid |-> fieldMetas[i].fid, value |-> RowValue(rows[k], fieldMetas[i].fid)] :
        <<i, k>> \in { p \in (1..Len(fieldMetas)) \X (1..Len(rows)) :
                          /\ fieldMetas[p[1]].fid # mf.fid
                          /\ fieldMetas[p[1]].semanticType = "nominal" } }

FirstRow(rows, b) ==
    CHOOSE k \in 1..Len(rows) :
        /\ RowValue(rows[k], b.fid) = b.value
        /\ \A j \in 1..(k - 1) : RowValue(rows[j], b.fid) # b.value

\* the field ids in their string order, and the place of a field id in it
FidOrder == << "f", "g", "h", "zz" >>

FidRank(fid) == CHOOSE i \in 1..Len(FidOrder) : FidOrder[i] = fid

\* ranking with ties between buckets of different sizes going to the smaller
BeforeSmallFirst(a, b) ==
    \/ a.score > b.score
    \/ a.score = b.score /\ a.size < b.size
    \/ a.score = b.score /\ a.size = b.size /\ a.fieldOrder < b.fieldOrder
    \/ a.score = b.score /\ a.size = b.size /\ a.fieldOrder = b.fieldOrder
         /\ a.bucketOrder < b.bucketOrder

\* ranking: score descending, then bucket size descending, then field id,
\* then first appearance of the bucket
Before(a, b) ==
    \/ a.score > b.score
    \/ a.score = b.score /\ a.size > b.size
    \/ a.score = b.score /\ a.size = b.size /\ a.fieldOrder < b.fieldOrder
    \/ a.score = b.score /\ a.size = b.size /\ a.fieldOrder = b.fieldOrder
         /\ a.bucketOrder < b.bucketOrder

RECURSIVE Ranked(_)
Ranked(results) ==
    IF results = {} THEN <<>>
    ELSE LET top == CHOOSE a \in results : \A b \in results \ {a} : Before(a, b)
         IN  <<top>> \o Ranked(results \ {top})

analyzeContributions(population, fieldMetas, mf, globalValue) ==
    IF Len(population) = 0 THEN <<>>
    ELSE Ranked({ LET rows == RowsWith(population, b.fid, b.value)
                      inside == AggValue(Aggregate(rows, mf.fid), mf.aggregator)
                  IN  [fid |-> b.fid, value |-> b.value, size |-> Len(rows),
                       inside |-> inside, baseline |-> globalValue,
                       score |-> Len(rows) * Abs(inside - globalValue),
                       fieldOrder |-> FidRank(b.fid),
                       bucketOrder |-> FirstRow(population, b)] :
                  b \in Buckets(population, fieldMetas, mf) })

\* an analyzer that ranks the buckets of whichever population has rows
analyzeComparisonsOverUnion(population, comparisonPopulation, fieldMetas, mf) ==
    LET both == population \o comparisonPopulation
    IN  Ranked({ LET rows == RowsWith(population, b.fid, b.value)
                     others == RowsWith(comparisonPopulation, b.fid, b.value)
                     inside == AggValue(Aggregate(rows, mf.fid), mf.aggregator)
                     outside == AggValue(Aggregate(others, mf.fid), mf.aggregator)
                 IN  [fid |-> b.fid, value |-> b.value,
                      size |-> Len(rows) + Len(others),
                      inside |-> inside, baseline |-> outside,
                      score |-> (Len(rows) + Len(others)) * Abs(inside - outside),
                      fieldOrder |-> FidRank(b.fid),
                      bucketOrder |-> FirstRow(both, b)] :
                 b \in Buckets(both, fieldMetas, mf) })

analyzeComparisons(population, comparisonPopulation, fieldMetas, mf) ==
    IF Len(population) = 0 \/ Len(comparisonPopulation) = 0 THEN <<>>
    ELSE LET both == population \o comparisonPopulation
         IN  Ranked({ LET rows == RowsWith(population, b.fid, b.value)
                          others == RowsWith(comparisonPopulation, b.fid, b.value)
                          inside == AggValue(Aggregate(rows, mf.fid), mf.aggregator)
                          outside == AggValue(Aggregate(others, mf.fid), mf.aggregator)
                      IN  [fid |-> b.fid, value |-> b.value,
                           size |-> Len(rows) + Len(others),
                           inside |-> inside, baseline |-> outside,
                           score |-> (Len(rows) + Len(others)) * Abs(inside - outside),
                           fieldOrder |-> FidRank(b.fid),
                           bucketOrder |-> FirstRow(both, b)] :
                      b \in Buckets(both, fieldMetas, mf) })

(***************************************************************************)
(* The derived stages of the constructor.                                  *)
(***************************************************************************)
\* target!.field : the non-null assertion is not checked at run time, and
\* reading a property of null throws a TypeError
TypeError == [error |-> "TypeError"]

AssertedField(target) == IF target = NULL THEN TypeError ELSE target.field

\* a global stage that computes statistics for every main field, resolved
\* or not
GlobalStageNoTargetCheck(input) ==
    LET mf == input.mainField
        targetField == IF mf # NULL THEN resolveCompareTarget(mf, fields) ELSE NULL
        stats == IF mf # NULL
                 THEN [definition |-> mf,
                       field |-> IF targetField # NULL THEN targetField.field ELSE NULL,
                       stats |-> statDivision(data, data, fields, mf.fid)]
                 ELSE NULL
    IN  [mainField |-> mf, mainFieldFilters |-> input.mainFieldFilters,
         comparisonFilters |-> input.comparisonFilters,
         targetField |-> targetField, globalStats |-> stats]

GlobalStage(input) ==
    LET mf == input.mainField
        targetField == IF mf # NULL THEN resolveCompareTarget(mf, fields) ELSE NULL
        stats == IF mf # NULL /\ targetField # NULL
                 THEN [definition |-> mf, field |-> targetField.field,
                       stats |-> statDivision(data, data, fields, targetField.field.fid)]
                 ELSE NULL
    IN  [mainField |-> mf, mainFieldFilters |-> input.mainFieldFilters,
         comparisonFilters |-> input.comparisonFilters,
         targetField |-> targetField, globalStats |-> stats]

MainGroupStageEmptyOnNoFilters(g) ==
    LET filtered == IF Len(g.mainFieldFilters) = 0 THEN <<>>
                    ELSE applyDividers(data, g.mainFieldFilters)[1]
        stats == IF g.mainField # NULL /\ g.targetField # NULL
                    /\ Len(g.mainFieldFilters) > 0
                 THEN [definition |-> g.mainField, field |-> g.targetField.field,
                       stats |-> statDivision(data, filtered, fields, g.mainField.fid)]
                 ELSE NULL
    IN  [data |-> filtered, stats |-> stats, mainField |-> g.mainField,
         globalStats |-> g.globalStats]

MainGroupStageNoFieldCheck(g) ==
    LET filtered == applyDividers(data, g.mainFieldFilters)[1]
        stats == IF Len(g.mainFieldFilters) > 0
                 THEN [definition |-> g.mainField, field |-> fields[1],
                       stats |-> statDivision(data, filtered, fields, fields[1].fid)]
                 ELSE NULL
    IN  [data |-> filtered, stats |-> stats, mainField |-> g.mainField,
         globalStats |-> g.globalStats]

MainGroupStageNoLengthCheck(g) ==
    LET filtered == applyDividers(data, g.mainFieldFilters)[1]
        stats == IF g.mainField # NULL /\ g.targetField # NULL
                 THEN [definition |-> g.mainField, field |-> g.targetField.field,
                       stats |-> statDivision(data, filtered, fields, g.mainField.fid)]
                 ELSE NULL
    IN  [data |-> filtered, stats |-> stats, mainField |-> g.mainField,
         globalStats |-> g.globalStats]

MainGroupStage(g) ==
    LET filtered == applyDividers(data, g.mainFieldFilters)[1]
        stats == IF g.mainField # NULL /\ g.targetField # NULL
                    /\ Len(g.mainFieldFilters) > 0
                 THEN [definition |-> g.mainField, field |-> g.targetField.field,
                       stats |-> statDivision(data, filtered, fields, g.mainField.fid)]
                 ELSE NULL
    IN  [data |-> filtered, stats |-> stats, mainField |-> g.mainField,
         globalStats |-> g.globalStats]

GeneralAnalysesInvokes(m) == m.mainField # NULL /\ m.globalStats # NULL

GeneralAnalysesStageOverData(m) ==
    IF ~GeneralAnalysesInvokes(m) THEN <<>>
    ELSE analyzeContributions(data, fields, m.mainField,
                              AggValue(m.globalStats.stats, m.mainField.aggregator))

GeneralAnalysesStage(m) ==
    IF ~GeneralAnalysesInvokes(m) THEN <<>>
    ELSE analyzeContributions(m.data, fields, m.mainField,
                              AggValue(m.globalStats.stats, m.mainField.aggregator))

CompareGroupStageNoLengthCheck(g) ==
    IF g.mainField = NULL \/ g.globalStats = NULL
    THEN [data |-> <<>>, stats |-> NULL]
    ELSE LET filtered == applyDividers(data, g.comparisonFilters)[1]
         IN  [data |-> filtered,
              stats |-> [definition |-> g.mainField,
                         field |-> AssertedField(resolveCompareTarget(g.mainField, fields)),
                         stats |-> statDivision(data, filtered, fields, g.mainField.fid)]]

CompareGroupStage(g) ==
    IF g.mainField = NULL \/ g.globalStats = NULL \/ Len(g.comparisonFilters) = 0
    THEN [data |-> <<>>, stats |-> NULL]
    ELSE LET filtered == applyDividers(data, g.comparisonFilters)[1]
         IN  [data |-> filtered,
              stats |-> [definition |-> g.mainField,
                         field |-> AssertedField(resolveCompareTarget(g.mainField, fields)),
                         stats |-> statDivision(data, filtered, fields, g.mainField.fid)]]

ComparisonAnalysesInvokes(base) ==
    base.global.mainField # NULL /\ Len(base.global.comparisonFilters) > 0

ComparisonAnalysesStage(base) ==
    IF ~ComparisonAnalysesInvokes(base) THEN <<>>
    ELSE analyzeComparisons(base.mainGroup.data, base.compareGroup.data, fields,
                            base.global.mainField)

(***************************************************************************)
(* The published outputs, written by the update methods.                   *)
(***************************************************************************)
updateGlobalStats(out, stats) == [out EXCEPT !.globalStats = stats]

updateMainGroupStatsKeepingStats(out, rows, stats) ==
    [out EXCEPT !.selection = rows,
                !.selectionStats = IF out.selectionStats # NULL THEN out.selectionStats
                                   ELSE stats]

updateMainGroupStatsMerging(out, rows, stats) ==
    [out EXCEPT !.selection = SelectSeq(out.selection, LAMBDA r : \E k \in 1..Len(rows) : rows[k] = r),
                !.selectionStats = stats]

updateMainGroupStatsDroppingStats(out, rows, stats) ==
    [out EXCEPT !.selection = rows, !.selectionStats = NULL]

updateMainGroupStatsStatsOnly(out, rows, stats) ==
    [out EXCEPT !.selectionStats = stats]

updateMainGroupStats(out, rows, stats) ==
    [out EXCEPT !.selection = rows, !.selectionStats = stats]

updateGeneralAnalyses(out, analysis) == [out EXCEPT !.generalAnalyses = analysis]

updateComparisonGroupStatsKeepingRows(out, rows, stats) ==
    [out EXCEPT !.diffStats = stats]

updateComparisonGroupStats(out, rows, stats) ==
    [out EXCEPT !.diffGroup = rows, !.diffStats = stats]

updateComparisonAnalyses(out, analysis) == [out EXCEPT !.comparisonAnalyses = analysis]

(***************************************************************************)
(* The seven throttled pipelines, in the order in which the constructor    *)
(* subscribes them.  The last three are the sources of comparisonBase$.    *)
(***************************************************************************)
ChainOrder ==
    << "global", "mainGroup", "generalAnalyses", "compareGroup",
       "cmpMainGroup", "cmpCompareGroup", "cmpGlobal" >>

Chains == { ChainOrder[i] : i \in 1..Len(ChainOrder) }

ChainIndex(c) == CHOOSE i \in 1..Len(ChainOrder) : ChainOrder[i] = c

\* the subscriptions array: which pipelines each of the five subscriptions owns
subscriptions ==
    << {"global"}, {"mainGroup"}, {"generalAnalyses"}, {"compareGroup"},
       {"cmpMainGroup", "cmpCompareGroup", "cmpGlobal"} >>

IdleThrottle == [active |-> FALSE, remaining |-> 0, hasValue |-> FALSE, sendValue |-> NULL]

\* one evaluation of an analysis stage: which stage, whether the analyzer
\* itself was invoked, whether the upstream results it was given were all
\* computed from one and the same input snapshot, and whether its result is
\* the one the stages yield for the inputs current at the evaluation
EvalRecord(stage, invoked, sameWave, asCurrent) ==
    [stage |-> stage, invoked |-> invoked, sameWave |-> sameWave, asCurrent |-> asCurrent]

\* the outputs of one full recomputation over the input snapshot snap
Expected(snap) ==
    LET g == GlobalStage(snap)
        m == MainGroupStage(g)
        d == CompareGroupStage(g)
    IN  [globalStats |-> g.globalStats, selection |-> m.data, selectionStats |-> m.stats,
         diffGroup |-> d.data, diffStats |-> d.stats,
         generalAnalyses |-> GeneralAnalysesStage(m),
         comparisonAnalyses |->
             ComparisonAnalysesStage([mainGroup |-> m, compareGroup |-> d, global |-> g])]

\* the mainGroup and compareGroup results are those of the global result
SameWave(base) ==
    /\ base.mainGroup = MainGroupStage(base.global)
    /\ base.compareGroup = CompareGroupStage(base.global)

\* a subscriber hands its values to an update method, which assigns published
\* fields of the store and nothing else
PublishWritingData(R, out) == [R EXCEPT !.out = out, !.data = out.selection]

Publish(R, out) == [R EXCEPT !.out = out]

\* comparisonBase$ : combineLatest keeps the latest value of each source and
\* emits on every source emission once all three have emitted
CombineNext(R, key, value, snap) ==
    LET base == [R.latest EXCEPT ![key] = value]
        R1 == [R EXCEPT !.latest = base]
    IN  IF base.mainGroup = NULL \/ base.compareGroup = NULL \/ base.global = NULL
        THEN R1
        ELSE [Publish(R1, updateComparisonAnalyses(R.out, ComparisonAnalysesStage(base)))
              EXCEPT
                !.evals = Append(R.evals,
                                 EvalRecord("comparisonAnalyses",
                                            ComparisonAnalysesInvokes(base), SameWave(base),
                                            ComparisonAnalysesStage(base)
                                                = Expected(snap).comparisonAnalyses))]

\* what the subscriber at the end of pipeline c does with one emission of
\* inputFlow$ that passed the throttle
Deliver(R, c, snap) ==
    LET g == GlobalStage(snap)
        m == MainGroupStage(g)
        d == CompareGroupStage(g)
    IN  CASE c = "global" ->
                Publish(R, updateGlobalStats(R.out, g.globalStats))
          [] c = "mainGroup" ->
                [Publish(R, updateMainGroupStats(R.out, m.data, m.stats))
                   EXCEPT !.from.selection = snap.mainFieldFilters]
          [] c = "generalAnalyses" ->
                [Publish(R, updateGeneralAnalyses(R.out, GeneralAnalysesStage(m)))
                   EXCEPT !.evals = Append(R.evals,
                                           EvalRecord("generalAnalyses",
                                                      GeneralAnalysesInvokes(m), TRUE, TRUE))]
          [] c = "compareGroup" ->
                [Publish(R, updateComparisonGroupStats(R.out, d.data, d.stats))
                   EXCEPT !.from.diffGroup = snap.comparisonFilters]
          [] c = "cmpMainGroup" -> CombineNext(R, "mainGroup", m, snap)
          [] c = "cmpCompareGroup" -> CombineNext(R, "compareGroup", d, snap)
          [] c = "cmpGlobal" -> CombineNext(R, "global", g, snap)

(***************************************************************************)
(* throttleTime(200, undefined, { leading: true, trailing: true })         *)
(***************************************************************************)
\* send(): emit the stored value, if any, and start a new throttle timer
\* a throttle that emits the stored value without forgetting it
ThrottleSendKeepingValue(R, c) ==
    IF ~R.thr[c].hasValue THEN R
    ELSE LET R1 == [R EXCEPT !.thr[c] = [active |-> TRUE, remaining |-> ThrottleMs,
                                         hasValue |-> TRUE,
                                         sendValue |-> R.thr[c].sendValue],
                             !.sent[c] = @ + 1]
         IN  Deliver(R1, c, R.thr[c].sendValue)

ThrottleSend(R, c) ==
    IF ~R.thr[c].hasValue THEN R
    ELSE LET R1 == [R EXCEPT !.thr[c] = [active |-> TRUE, remaining |-> ThrottleMs,
                                         hasValue |-> FALSE, sendValue |-> NULL],
                             !.sent[c] = @ + 1]
         IN  Deliver(R1, c, R.thr[c].sendValue)

\* a value arrives from inputFlow$
ThrottleNext(R, c, snap) ==
    LET R1 == [R EXCEPT !.thr[c].hasValue = TRUE, !.thr[c].sendValue = snap]
    IN  IF R.thr[c].active THEN R1
        ELSE IF ThrottleLeading THEN ThrottleSend(R1, c)
        ELSE [R1 EXCEPT !.thr[c].active = TRUE, !.thr[c].remaining = ThrottleMs]

\* the throttle timer of pipeline c expires
ThrottleEnd(R, c) ==
    LET R1 == [R EXCEPT !.thr[c].active = FALSE, !.thr[c].remaining = 0]
    IN  IF ThrottleTrailing THEN ThrottleSend(R1, c) ELSE R1

\* the reactions on the inputs run in subscription order; each live pipeline
\* gets the new combined input
RECURSIVE RunReactions(_, _, _, _)
RunReactions(R, live, snap, i) ==
    IF i > Len(ChainOrder) THEN R
    ELSE CHOOSE after \in
             { RunReactions(R1, live, snap, i + 1) :
                 R1 \in { IF live[ChainOrder[i]]
                          THEN ThrottleNext(R, ChainOrder[i], snap) ELSE R } } : TRUE

(***************************************************************************)
(* State.                                                                  *)
(***************************************************************************)
VARIABLES
    mainField, mainFieldFilters, comparisonFilters,   \* the three inputs
    selection, diffGroup,                             \* published outputs
    globalStats, selectionStats, diffStats,
    generalAnalyses, comparisonAnalyses,
    live,          \* per pipeline: its subscription has not been unsubscribed
    throttle,      \* per pipeline: the state of its throttleTime operator
    latest,        \* the combineLatest buffer of comparisonBase$
    from,          \* history: the filter arrays selection and diffGroup were last computed with
    evals,         \* history: the analysis-stage evaluations made by the last step
    sinceSetter,   \* history: ms since the last setter call, capped at ThrottleMs
    sinceContrib,  \* history: ms since analyzeContributions last ran, capped
    sinceComp,     \* history: ms since analyzeComparisons last ran, capped
    calls,         \* history: the number of setter calls so far
    teardown,      \* history: what was pending when destroy() ran, and setter calls since
    probe,         \* history: a spy counting analyzer invocations over one burst
    dataset,       \* the contents of the array the constructor was given as data
    fieldMetas,    \* the contents of the array the constructor was given as fields
    mainFieldSet,  \* history: setMainField has been called with a non-null argument
    userStore,     \* the UserStore: the signed-in user's workspace, and its calls in flight
    backupModal,   \* the BackupModal: its busy state, and the runs of backup in flight
    connector,     \* the database connector: its requests in flight, and the clock
    waves,         \* history: a spy counting input changes and the values each throttle let through
    call           \* history: the operation called in the last step, and what it returned

inputs == <<mainField, mainFieldFilters, comparisonFilters>>

outputs ==
    <<globalStats, selection, selectionStats, diffGroup, diffStats,
      generalAnalyses, comparisonAnalyses>>

vars ==
    <<mainField, mainFieldFilters, comparisonFilters, selection, diffGroup,
      globalStats, selectionStats, diffStats, generalAnalyses, comparisonAnalyses,
      live, throttle, latest, from, evals, sinceSetter, sinceContrib,
      sinceComp, calls, teardown, probe, dataset, fieldMetas, mainFieldSet, userStore, backupModal, connector, waves, call>>

Input == [mainField |-> mainField, mainFieldFilters |-> mainFieldFilters,
          comparisonFilters |-> comparisonFilters]

Out == [globalStats |-> globalStats, selection |-> selection,
        selectionStats |-> selectionStats, diffGroup |-> diffGroup,
        diffStats |-> diffStats, generalAnalyses |-> generalAnalyses,
        comparisonAnalyses |-> comparisonAnalyses]

\* the store as one value, before a step runs
Cur == [out |-> Out, thr |-> throttle, latest |-> latest, from |-> from,
        evals |-> <<>>, data |-> dataset, fields |-> fieldMetas, sent |-> waves.sent]

\* no operation was called in the step: time passed or a timer task ran
NoCall == [fn |-> "none"]

Invocations(log, stage) ==
    Cardinality({ i \in 1..Len(log) : log[i].stage = stage /\ log[i].invoked })

\* the store after a step: the outputs, the operators' state, and the history
Commit(R) ==
    /\ globalStats' = R.out.globalStats
    /\ selection' = R.out.selection
    /\ selectionStats' = R.out.selectionStats
    /\ diffGroup' = R.out.diffGroup
    /\ diffStats' = R.out.diffStats
    /\ generalAnalyses' = R.out.generalAnalyses
    /\ comparisonAnalyses' = R.out.comparisonAnalyses
    /\ throttle' = R.thr
    /\ latest' = R.latest
    /\ from' = R.from
    /\ evals' = R.evals
    /\ dataset' = R.data
    /\ fieldMetas' = R.fields
    /\ sinceContrib' = IF Invocations(R.evals, "generalAnalyses") > 0 THEN 0 ELSE sinceContrib
    /\ sinceComp' = IF Invocations(R.evals, "comparisonAnalyses") > 0 THEN 0 ELSE sinceComp

Counted(R, isCall) ==
    IF probe.on
    THEN [probe EXCEPT !.calls = @ + (IF isCall THEN 1 ELSE 0),
                       !.contrib = @ + Invocations(R.evals, "generalAnalyses"),
                       !.comp = @ + Invocations(R.evals, "comparisonAnalyses")]
    ELSE probe

(***************************************************************************)
(* Construction: the fields are initialised, then the five subscriptions   *)
(* are made; every toStream fires immediately, so each pipeline receives   *)
(* the initial inputs and its throttle lets them through.                  *)
(***************************************************************************)
Constructed ==
    [out |-> [globalStats |-> NULL, selection |-> data, selectionStats |-> NULL,
              diffGroup |-> <<>>, diffStats |-> NULL, generalAnalyses |-> <<>>,
              comparisonAnalyses |-> <<>>],
     thr |-> [c \in Chains |-> IdleThrottle],
     latest |-> [mainGroup |-> NULL, compareGroup |-> NULL, global |-> NULL],
     from |-> [selection |-> <<>>, diffGroup |-> <<>>],
     evals |-> <<>>, data |-> data, fields |-> fields,
     sent |-> [c \in Chains |-> 0]]

InitialInput == [mainField |-> NULL, mainFieldFilters |-> <<>>, comparisonFilters |-> <<>>]

Subscribed == RunReactions(Constructed, [c \in Chains |-> TRUE], InitialInput, 1)

\* the spy, when it is installed, counts the setter calls that change an
\* input and, per pipeline, the values its throttle has let through
(***************************************************************************)
(* UserStore (part_000): the signed-in user's organizations and workspaces.*)
(* A workspace's notebooks and datasets are undefined until they have been *)
(* loaded; a loaded list is an array, written here as a record around its  *)
(* items.                                                                  *)
(***************************************************************************)
Undefined == [undefined |-> TRUE]
Array(items) == [items |-> items]

\* info after getWorkspaces: one organization with one workspace, whose
\* notebooks and datasets have not been loaded
SignedIn ==
    [info |-> [organizations |->
                  << [name |-> "org",
                      workspaces |-> << [name |-> "wsp", notebooks |-> Undefined,
                                         datasets |-> Undefined] >>] >>],
     pending |-> <<>>,
     requests |-> 0]

(***************************************************************************)
(* BackupModal (components/backupModal/index.tsx): the modal is shown, no  *)
(* backup is running.                                                      *)
(***************************************************************************)
MaxRuns == 3

Opened ==
    [busy |-> FALSE, show |-> TRUE,
     run |-> [r \in 1..MaxRuns |-> [at |-> "idle", download |-> FALSE, mode |-> "notebook"]],
     uploads |-> 0]

WavesOff == [on |-> FALSE, changes |-> 0, sent |-> Constructed.sent]

Waved(R, changed) ==
    IF waves.on
    THEN [on |-> TRUE, changes |-> waves.changes + (IF changed THEN 1 ELSE 0),
          sent |-> R.sent]
    ELSE waves

Init ==
    /\ mainField = InitialInput.mainField
    /\ mainFieldFilters = InitialInput.mainFieldFilters
    /\ comparisonFilters = InitialInput.comparisonFilters
    /\ globalStats = Subscribed.out.globalStats
    /\ selection = Subscribed.out.selection
    /\ selectionStats = Subscribed.out.selectionStats
    /\ diffGroup = Subscribed.out.diffGroup
    /\ diffStats = Subscribed.out.diffStats
    /\ generalAnalyses = Subscribed.out.generalAnalyses
    /\ comparisonAnalyses = Subscribed.out.comparisonAnalyses
    /\ live = [c \in Chains |-> TRUE]
    /\ throttle = Subscribed.thr
    /\ latest = Subscribed.latest
    /\ from = Subscribed.from
    /\ evals = Subscribed.evals
    /\ sinceSetter = ThrottleMs
    /\ sinceContrib = ThrottleMs
    /\ sinceComp = ThrottleMs
    /\ calls = 0
    /\ teardown = [done |-> FALSE, pending |-> FALSE, setters |-> FALSE]
    /\ probe = [on |-> FALSE, calls |-> 0, contrib |-> 0, comp |-> 0]
    /\ dataset = Subscribed.data
    /\ fieldMetas = Subscribed.fields
    /\ mainFieldSet = FALSE
    /\ userStore = SignedIn
    /\ backupModal = Opened
    /\ connector = [pending |-> <<>>, now |-> 0, calls |-> 0]
    /\ waves = WavesOff
    /\ call = NoCall

(***************************************************************************)
(* The setters.  fresh says that the argument is a reference other than    *)
(* the current value of the input; only then do the reactions run          *)
(* (observable.ref), and null is never a fresh reference for null.         *)
(***************************************************************************)
destroyed == teardown.done

AfterSetter == IF destroyed THEN [teardown EXCEPT !.setters = TRUE] ELSE teardown

\* toStream over an observable.ref input: the stream emits when the input is
\* given a reference other than the one it holds; null is the same as null
toStreamEmitsAlways(fresh, bothNull) == TRUE

toStreamEmits(fresh, bothNull) == fresh /\ ~bothNull

React(snap, changed) ==
    IF changed THEN RunReactions(Cur, live, snap, 1) ELSE Cur

\* the assignments of the three setters, on the inputs as one record
setMainFieldResettingFilters(in, v) ==
    [in EXCEPT !.mainField = v, !.mainFieldFilters = <<>>]

setMainField(in, v) == [in EXCEPT !.mainField = v]

setMainFieldFilters(in, v) == [in EXCEPT !.mainFieldFilters = v]

setComparisonFilters(in, v) == [in EXCEPT !.comparisonFilters = v]

\* the inputs after a setter, and the reactions it sets off
Assigned(in, changed) ==
    /\ mainField' = in.mainField
    /\ mainFieldFilters' = in.mainFieldFilters
    /\ comparisonFilters' = in.comparisonFilters
    /\ sinceSetter' = 0
    /\ calls' = calls + 1
    /\ teardown' = AfterSetter
    /\ UNCHANGED <<live, userStore, backupModal, connector>>
    /\ \E R \in { React(in, changed) } :
           /\ Commit(R)
           /\ probe' = Counted(R, TRUE)
           /\ waves' = Waved(R, changed)

SetMainField(v, fresh) ==
    /\ fresh \/ v = mainField
    /\ call' = [fn |-> "setMainField", arg |-> v, fresh |-> fresh, same |-> v = mainField]
    /\ mainFieldSet' = (mainFieldSet \/ v # NULL)
    /\ \E in \in { setMainField(Input, v) } :
           Assigned(in, toStreamEmits(fresh, v = NULL /\ mainField = NULL))

SetMainFieldFilters(v, fresh) ==
    /\ fresh \/ v = mainFieldFilters
    /\ call' = [fn |-> "setMainFieldFilters", arg |-> v, fresh |-> fresh,
                same |-> v = mainFieldFilters]
    /\ UNCHANGED mainFieldSet
    /\ \E in \in { setMainFieldFilters(Input, v) } :
           Assigned(in, toStreamEmits(fresh, FALSE))

SetComparisonFilters(v, fresh) ==
    /\ fresh \/ v = comparisonFilters
    /\ call' = [fn |-> "setComparisonFilters", arg |-> v, fresh |-> fresh,
                same |-> v = comparisonFilters]
    /\ UNCHANGED mainFieldSet
    /\ \E in \in { setComparisonFilters(Input, v) } :
           Assigned(in, toStreamEmits(fresh, FALSE))

(***************************************************************************)
(* Timers.  The timers that are due fire one per task, in the order in     *)
(* which they were started, which is the subscription order.               *)
(***************************************************************************)
Due(c) == live[c] /\ throttle[c].active /\ throttle[c].remaining = 0

TimerFire(c) ==
    /\ Due(c)
    /\ \A b \in Chains : Due(b) => ChainIndex(c) <= ChainIndex(b)
    /\ \E R \in { ThrottleEnd(Cur, c) } :
           /\ Commit(R)
           /\ probe' = Counted(R, FALSE)
           /\ waves' = Waved(R, FALSE)
    /\ call' = NoCall
    /\ UNCHANGED <<mainField, mainFieldFilters, comparisonFilters, live, sinceSetter,
                   calls, teardown, mainFieldSet, userStore, backupModal, connector>>

Tick ==
    /\ \A c \in Chains : ~Due(c)
    /\ throttle' = [c \in Chains |->
                      IF throttle[c].active
                      THEN [throttle[c] EXCEPT !.remaining = Max(0, @ - TickMs)]
                      ELSE throttle[c]]
    /\ sinceSetter' = Min(ThrottleMs, sinceSetter + TickMs)
    /\ sinceContrib' = Min(ThrottleMs, sinceContrib + TickMs)
    /\ sinceComp' = Min(ThrottleMs, sinceComp + TickMs)
    /\ evals' = <<>>
    /\ call' = NoCall
    /\ UNCHANGED <<mainField, mainFieldFilters, comparisonFilters, selection, diffGroup,
                   globalStats, selectionStats, diffStats, generalAnalyses,
                   comparisonAnalyses, live, latest, from, calls, teardown, probe,
                   dataset, fieldMetas, mainFieldSet, userStore, backupModal, connector, waves>>

(***************************************************************************)
(* destroy(): unsubscribe every subscription.  An unsubscribed pipeline    *)
(* gets no more values, its throttle timer is cancelled and the state of   *)
(* its operators is out of reach, which is modelled as their idle state.   *)
(***************************************************************************)
UnsubscribedToggling(lv) == [c \in Chains |-> ~lv[c]]

UnsubscribedSkippingLast(lv) ==
    [c \in Chains |->
        lv[c] /\ ~(\E i \in 1..(Len(subscriptions) - 1) : c \in subscriptions[i])]

Unsubscribed(lv) ==
    [c \in Chains |-> lv[c] /\ ~(\E i \in 1..Len(subscriptions) : c \in subscriptions[i])]

destroy ==
    /\ live' = Unsubscribed(live)
    /\ throttle' = [c \in Chains |-> IF live'[c] THEN throttle[c] ELSE IdleThrottle]
    /\ latest' = IF \E c \in subscriptions[Len(subscriptions)] : live'[c]
                 THEN latest ELSE Constructed.latest
    /\ teardown' = IF destroyed THEN teardown
                   ELSE [teardown EXCEPT !.done = TRUE,
                                         !.pending = \E c \in Chains : throttle[c].hasValue]
    /\ evals' = <<>>
    /\ call' = [fn |-> "destroy"]
    /\ UNCHANGED <<mainField, mainFieldFilters, comparisonFilters, selection, diffGroup,
                   globalStats, selectionStats, diffStats, generalAnalyses,
                   comparisonAnalyses, from, sinceSetter, sinceContrib,
                   sinceComp, calls, probe, dataset, fieldMetas, mainFieldSet, userStore, backupModal, connector, waves>>

(***************************************************************************)
(* export(): a snapshot of the inputs, annotated with field metadata.      *)
(***************************************************************************)
\* fieldMetas.find(f => f.fid === fid): the first field with that fid, or null
find(metas, fid) ==
    IF \E i \in 1..Len(metas) : metas[i].fid = fid
    THEN metas[CHOOSE i \in 1..Len(metas) :
                  /\ metas[i].fid = fid
                  /\ \A j \in 1..(i - 1) : metas[j].fid # fid]
    ELSE NULL

RECURSIVE exportFiltersKeepingUnknown(_, _)
exportFiltersKeepingUnknown(filters, metas) ==
    IF filters = <<>> THEN <<>>
    ELSE LET filter == Head(filters)
             field == find(metas, filter.fid)
         IN  << [fid |-> filter.fid, lo |-> filter.lo, hi |-> filter.hi,
                 name |-> IF field # NULL THEN field.name ELSE NULL,
                 semanticType |-> IF field # NULL THEN field.semanticType ELSE NULL] >>
             \o exportFiltersKeepingUnknown(Tail(filters), metas)

RECURSIVE exportFilters(_, _)
exportFilters(filters, metas) ==
    IF filters = <<>> THEN <<>>
    ELSE LET filter == Head(filters)
             field == find(metas, filter.fid)
         IN  (IF field # NULL
              THEN << [fid |-> filter.fid, lo |-> filter.lo, hi |-> filter.hi,
                       name |-> field.name, semanticType |-> field.semanticType] >>
              ELSE <<>>)
             \o exportFilters(Tail(filters), metas)

\* an export of the inputs as they were when the stages last published
exportPublished(in, metas) ==
    LET seen == IF globalStats # NULL THEN globalStats.definition ELSE NULL
        main == IF seen # NULL THEN resolveCompareTarget(seen, metas) ELSE NULL
    IN  [mainField |-> IF main # NULL
                       THEN [fid |-> seen.fid, aggregator |-> seen.aggregator,
                             name |-> main.field.name,
                             semanticType |-> main.field.semanticType]
                       ELSE NULL,
         mainFieldFilters |-> exportFilters(from.selection, metas),
         comparisonFilters |-> exportFilters(from.diffGroup, metas)]

export(in, metas) ==
    LET main == IF in.mainField # NULL THEN resolveCompareTarget(in.mainField, metas)
                ELSE NULL
    IN  [mainField |-> IF main # NULL
                       THEN [fid |-> in.mainField.fid,
                             aggregator |-> in.mainField.aggregator,
                             name |-> main.field.name,
                             semanticType |-> main.field.semanticType]
                       ELSE NULL,
         mainFieldFilters |-> exportFilters(in.mainFieldFilters, metas),
         comparisonFilters |-> exportFilters(in.comparisonFilters, metas)]

Export ==
    /\ call' = [fn |-> "export", result |-> export(Input, fieldMetas)]
    /\ evals' = <<>>
    /\ UNCHANGED <<mainField, mainFieldFilters, comparisonFilters, selection, diffGroup,
                   globalStats, selectionStats, diffStats, generalAnalyses,
                   comparisonAnalyses, live, throttle, latest, from, sinceSetter,
                   sinceContrib, sinceComp, calls, teardown, probe, dataset, fieldMetas,
                   mainFieldSet, userStore, backupModal, connector, waves>>

Next ==
    \/ calls < MaxCalls /\ \E v \in MainFields, fresh \in BOOLEAN : SetMainField(v, fresh)
    \/ calls < MaxCalls /\ \E v \in FilterSets, fresh \in BOOLEAN : SetMainFieldFilters(v, fresh)
    \/ calls < MaxCalls /\ \E v \in FilterSets, fresh \in BOOLEAN : SetComparisonFilters(v, fresh)
    \/ \E c \in Chains : TimerFire(c)
    \/ Tick
    \/ destroy

Spec == Init /\ [][Next]_vars

\* the same store, with callers that also pass main fields and filters whose
\* fid is not in fields, and that call export()
WideNext ==
    \/ calls < WideCalls
          /\ \E v \in WideMainFields, fresh \in BOOLEAN : SetMainField(v, fresh)
    \/ calls < WideCalls
          /\ \E v \in WideFilterSets, fresh \in BOOLEAN : SetMainFieldFilters(v, fresh)
    \/ calls < WideCalls
          /\ \E v \in WideFilterSets, fresh \in BOOLEAN : SetComparisonFilters(v, fresh)
    \/ \E c \in Chains : TimerFire(c)
    \/ Tick
    \/ destroy
    \/ Export

WideSpec == Init /\ [][WideNext]_vars

(***************************************************************************)
(* A stage function that throws.  No stage has a try/catch and no          *)
(* pipeline a catchError, and subscribe() is given a next callback only:   *)
(* the error ends the subscription the pipeline belongs to (for            *)
(* comparisonAnalyses$, all three sources of comparisonBase$) and nothing  *)
(* is published by the evaluation.  Here the evaluation is a trailing one. *)
(***************************************************************************)
SubscriptionOf(c) == CHOOSE i \in 1..Len(subscriptions) : c \in subscriptions[i]

StageThrows(c) ==
    /\ Due(c)
    /\ \A b \in Chains : Due(b) => ChainIndex(c) <= ChainIndex(b)
    /\ throttle[c].hasValue
    /\ live' = [b \in Chains |-> live[b] /\ b \notin subscriptions[SubscriptionOf(c)]]
    /\ throttle' = [b \in Chains |-> IF live'[b] THEN throttle[b] ELSE IdleThrottle]
    /\ latest' = IF c \in subscriptions[Len(subscriptions)]
                 THEN Constructed.latest ELSE latest
    /\ evals' = <<>>
    /\ call' = NoCall
    /\ UNCHANGED <<mainField, mainFieldFilters, comparisonFilters, selection, diffGroup,
                   globalStats, selectionStats, diffStats, generalAnalyses,
                   comparisonAnalyses, from, sinceSetter, sinceContrib,
                   sinceComp, calls, teardown, probe, dataset, fieldMetas, mainFieldSet, userStore, backupModal, connector, waves>>

FaultNext ==
    \/ calls < FaultCalls /\ \E v \in MainFields, fresh \in BOOLEAN : SetMainField(v, fresh)
    \/ calls < FaultCalls
          /\ \E v \in FilterSets, fresh \in BOOLEAN : SetMainFieldFilters(v, fresh)
    \/ calls < FaultCalls
          /\ \E v \in FilterSets, fresh \in BOOLEAN : SetComparisonFilters(v, fresh)
    \/ \E c \in Chains : TimerFire(c)
    \/ \E c \in Chains : StageThrows(c)
    \/ Tick
    \/ destroy

FaultSpec == Init /\ [][FaultNext]_vars

(***************************************************************************)
(* applyDividers on its own: it is applied to every sequence of at most    *)
(* MaxRows rows, among them rows without a value for f, and to every       *)
(* filter array, among them arrays with two filters and with unknown fids. *)
(***************************************************************************)
RowValues == { data[i] : i \in 1..Len(data) } \cup { [g |-> "a"] }

RowSeqs == UNION { [1..n -> RowValues] : n \in 0..MaxRows }

DividerFilterSets == WideFilterSets \cup { <<FLow, FHigh>> }

ApplyDividers ==
    /\ call = NoCall
    /\ \E rows \in RowSeqs, filters \in DividerFilterSets :
          call' = [fn |-> "applyDividers", rows |-> rows, filters |-> filters,
                   result |-> applyDividers(rows, filters)]
    /\ UNCHANGED <<mainField, mainFieldFilters, comparisonFilters, selection, diffGroup,
                   globalStats, selectionStats, diffStats, generalAnalyses,
                   comparisonAnalyses, live, throttle, latest, from, evals, sinceSetter,
                   sinceContrib, sinceComp, calls, teardown, probe, dataset, fieldMetas,
                   mainFieldSet, userStore, backupModal, connector, waves>>

DividerSpec == Init /\ [][ApplyDividers]_vars

(***************************************************************************)
(* The analyzers on their own, next to a store in use: before the first    *)
(* setter call they are applied to every population of at most             *)
(* MaxPopulation rows of a dataset with two nominal fields, which fields   *)
(* lists in the reverse of their field id order.  The caller of the store  *)
(* sets each input once, and may pass a filter that no row passes.         *)
(***************************************************************************)
MaxPopulation == 2

\* a filter on a known field that no row of the dataset passes
FNone == [fid |-> "f", lo |-> 50, hi |-> 60]

RankFilterSets == { <<FLow>>, <<FNone>> }

RankFields ==
    << [fid |-> "f", name |-> "F", semanticType |-> "quantitative"],
       [fid |-> "h", name |-> "H", semanticType |-> "nominal"],
       [fid |-> "g", name |-> "G", semanticType |-> "nominal"] >>

RankRows ==
    { [f |-> 10, g |-> "a", h |-> "x"], [f |-> 10, g |-> "b", h |-> "x"],
      [f |-> 30, g |-> "b", h |-> "y"], [f |-> 20, g |-> "a", h |-> "y"] }

Populations == UNION { [1..n -> RankRows] : n \in 0..MaxPopulation }

RankBaselines == { 10, 20 }

RankMainField == [fid |-> "f", aggregator |-> "mean"]

\* a call made once the construction wave is over and before any setter call
Analyzed(record) ==
    /\ call = NoCall
    /\ calls = 0
    /\ \A c \in Chains : ~throttle[c].active
    /\ call' = record
    /\ UNCHANGED <<mainField, mainFieldFilters, comparisonFilters, selection, diffGroup,
                   globalStats, selectionStats, diffStats, generalAnalyses,
                   comparisonAnalyses, live, throttle, latest, from, evals, sinceSetter,
                   sinceContrib, sinceComp, calls, teardown, probe, dataset, fieldMetas,
                   mainFieldSet, userStore, backupModal, connector, waves>>

AnalyzeContributions ==
    \E population \in Populations, globalValue \in RankBaselines :
        Analyzed([fn |-> "analyzeContributions", population |-> population,
                  result |-> analyzeContributions(population, RankFields, RankMainField,
                                                  globalValue)])

AnalyzeComparisons ==
    \E population \in Populations, comparisonPopulation \in Populations :
        Analyzed([fn |-> "analyzeComparisons", population |-> population,
                  comparisonPopulation |-> comparisonPopulation,
                  result |-> analyzeComparisons(population, comparisonPopulation,
                                                RankFields, RankMainField)])

\* every input is set once, at any time and in any order
RankNext ==
    \/ mainField = NULL /\ SetMainField(RankMainField, TRUE)
    \/ mainFieldFilters = <<>> /\ \E v \in RankFilterSets : SetMainFieldFilters(v, TRUE)
    \/ comparisonFilters = <<>> /\ \E v \in RankFilterSets : SetComparisonFilters(v, TRUE)
    \/ \E c \in Chains : TimerFire(c)
    \/ Tick
    \/ AnalyzeContributions
    \/ AnalyzeComparisons

RankSpec == Init /\ [][RankNext]_vars

(***************************************************************************)
(* The store with a caller that may choose a derived measure as the main   *)
(* field: resolveCompareTarget resolves it to a field with another fid.    *)
(* Every input is set once, at any time and in any order.                  *)
(***************************************************************************)
DerivedField == [fid |-> "d", aggregator |-> "mean"]

TargetMainFields == (MainFields \ { NULL }) \cup { DerivedField }

TargetNext ==
    \/ mainField = NULL /\ \E v \in TargetMainFields : SetMainField(v, TRUE)
    \/ mainFieldFilters = <<>>
          /\ \E v \in FilterSets \ { <<>> } : SetMainFieldFilters(v, TRUE)
    \/ comparisonFilters = <<>>
          /\ \E v \in FilterSets \ { <<>> } : SetComparisonFilters(v, TRUE)
    \/ \E c \in Chains : TimerFire(c)
    \/ Tick

TargetSpec == Init /\ [][TargetNext]_vars

(***************************************************************************)
(* The store under a spy that is installed with the construction and       *)
(* counts, for every pipeline, the values its throttle lets through (the   *)
(* one of the construction included), and the setter calls that change an  *)
(* input.                                                                  *)
(***************************************************************************)
\* the number of setter calls in one run under the spy
WaveCalls == 2

WaveStart ==
    /\ ~waves.on
    /\ waves' = [on |-> TRUE, changes |-> 0, sent |-> Subscribed.sent]
    /\ UNCHANGED <<mainField, mainFieldFilters, comparisonFilters, selection, diffGroup,
                   globalStats, selectionStats, diffStats, generalAnalyses,
                   comparisonAnalyses, live, throttle, latest, from, evals, sinceSetter,
                   sinceContrib, sinceComp, calls, teardown, probe, dataset, fieldMetas,
                   mainFieldSet, userStore, backupModal, connector, call>>

WaveNext ==
    \/ WaveStart
    \/ waves.on /\ calls < WaveCalls
          /\ \E v \in MainFields, fresh \in BOOLEAN : SetMainField(v, fresh)
    \/ waves.on /\ calls < WaveCalls
          /\ \E v \in FilterSets, fresh \in BOOLEAN : SetMainFieldFilters(v, fresh)
    \/ waves.on /\ calls < WaveCalls
          /\ \E v \in FilterSets, fresh \in BOOLEAN : SetComparisonFilters(v, fresh)
    \/ waves.on /\ \E c \in Chains : TimerFire(c)
    \/ waves.on /\ Tick
    \/ waves.on /\ destroy

WaveSpec == Init /\ [][WaveNext]_vars

\* time does pass and the timers of the scheduler do expire
\* weak fairness of the timer tasks, with the enabling condition written out:
\* a timer task is enabled exactly when some timer is due
TimerDue == \E c \in Chains : Due(c)

TimersRun == []<>(~TimerDue) \/ []<><<\E c \in Chains : TimerFire(c)>>_vars

LiveSpec == Spec /\ WF_vars(Tick) /\ TimersRun

(***************************************************************************)
(* A burst: once mainField is set and comparisonFilters is non-empty, a    *)
(* spy is put on the analyzers and BurstCalls calls of setMainFieldFilters *)
(* follow, each with a new array, with less than one tick of time between  *)
(* the first and the last; then the timers run out.                        *)
(***************************************************************************)
BurstStart ==
    /\ ~probe.on
    /\ ~destroyed
    /\ mainField # NULL
    /\ comparisonFilters # <<>>
    /\ probe' = [on |-> TRUE, calls |-> 0, contrib |-> 0, comp |-> 0]
    /\ UNCHANGED <<mainField, mainFieldFilters, comparisonFilters, selection, diffGroup,
                   globalStats, selectionStats, diffStats, generalAnalyses,
                   comparisonAnalyses, live, throttle, latest, from, evals, sinceSetter,
                   sinceContrib, sinceComp, calls, teardown, dataset, fieldMetas,
                   mainFieldSet, userStore, backupModal, connector, waves, call>>

BurstCall ==
    /\ probe.on
    /\ probe.calls < BurstCalls
    /\ \E v \in FilterSets : SetMainFieldFilters(v, TRUE)

BurstTimer == probe.on /\ probe.calls > 0 /\ \E c \in Chains : TimerFire(c)

BurstTick == probe.on /\ probe.calls = BurstCalls /\ Tick

WarmupSetMainField ==
    ~probe.on /\ calls < WarmupCalls /\ \E v \in MainFields : SetMainField(v, TRUE)

WarmupSetComparisonFilters ==
    ~probe.on /\ calls < WarmupCalls /\ \E v \in FilterSets : SetComparisonFilters(v, TRUE)

WarmupTimer == ~probe.on /\ \E c \in Chains : TimerFire(c)

WarmupTick == ~probe.on /\ Tick

BurstNext ==
    \/ WarmupSetMainField
    \/ WarmupSetComparisonFilters
    \/ WarmupTimer
    \/ WarmupTick
    \/ BurstStart
    \/ BurstCall
    \/ BurstTimer
    \/ BurstTick

BurstSpec == Init /\ [][BurstNext]_vars

(***************************************************************************)
(* Properties.                                                             *)
(***************************************************************************)
\* no pipeline of a store that is in use holds an input it has not yet published
Quiescent == ~destroyed /\ \A c \in Chains : ~throttle[c].hasValue

\* a setter call that hands its input a new reference
InputChange ==
    \/ \E v \in MainFields : ~(v = NULL /\ mainField = NULL) /\ SetMainField(v, TRUE)
    \/ \E v \in FilterSets : SetMainFieldFilters(v, TRUE)
    \/ \E v \in FilterSets : SetComparisonFilters(v, TRUE)

\* C1: once destroy() has been called, no published output ever changes
\* again, whatever setter calls and timer expiries follow, also when a
\* trailing evaluation was pending at the time of the call.
DestroyFreezesOutputs == [][destroyed => outputs' = outputs]_vars

\* destroy() ran while a trailing evaluation was pending, setters were called
\* afterwards, and the outputs are not those of the current inputs
DestroyedWhilePending ==
    destroyed /\ teardown.pending /\ teardown.setters /\ Out # Expected(Input)

\* C2: when the store is not destroyed and the setter calls have stopped,
\* the published outputs eventually are, and stay, those the stages yield for
\* the final inputs.
FinalInputsReflected == <>[](destroyed \/ Out = Expected(Input))

\* a trailing evaluation has just published the inputs of a setter call made
\* one tick earlier, inside the throttle window
TrailingPublished ==
    /\ Quiescent
    /\ sinceSetter = TickMs
    /\ \A c \in Chains : throttle[c].active /\ throttle[c].remaining = ThrottleMs
    /\ Input # InitialInput
    /\ Out = Expected(Input)

BurstTwoWaves == probe.on => probe.contrib <= 2 /\ probe.comp <= 2

\* C5 as stated: a setter call that changes an input and comes at least
\* ThrottleMs after the previous setter call, or before any setter call, has
\* its recomputed outputs published in the same step.
LeadingAfterQuietSetters ==
    [][(~destroyed /\ sinceSetter >= ThrottleMs /\ InputChange)
          => Out' = Expected(Input')]_vars

\* C5 as amended: a setter call that changes an input while no throttle
\* window is open (every pipeline's timer has expired since its last
\* evaluation, be it the one at construction, a leading or a trailing one)
\* has its recomputed outputs published in the same step.
LeadingOutsideWindow ==
    [][(~destroyed /\ (\A c \in Chains : ~throttle[c].active) /\ InputChange)
          => Out' = Expected(Input')]_vars

\* a setter call has just been published by a leading evaluation of every
\* pipeline
LeadingPublished ==
    /\ Quiescent
    /\ sinceSetter = 0
    /\ Len(evals) = 4
    /\ \A c \in Chains : throttle[c].active /\ throttle[c].remaining = ThrottleMs
    /\ Input # InitialInput
    /\ Out = Expected(Input)

\* C6: every evaluation made when a throttle timer expires yields the result
\* of the inputs current at that moment.
TrailingUsesCurrentInputs ==
    [][(\E c \in Chains : TimerFire(c))
          => \A i \in 1..Len(evals') : evals'[i].asCurrent]_vars

NullRules ==
    /\ mainField = NULL => globalStats = NULL /\ selectionStats = NULL /\ diffStats = NULL
    /\ mainFieldFilters = <<>> => selectionStats = NULL
    /\ comparisonFilters = <<>> => diffStats = NULL

\* C7 as stated: in every reachable state, a null mainField means null
\* globalStats, selectionStats and diffStats, an empty mainFieldFilters means
\* a null selectionStats, and an empty comparisonFilters a null diffStats.
NullStatsAlways == NullRules

\* C7 as amended: the same, in every reachable state in which the store is
\* not destroyed and no pipeline holds an input it has not yet published.
NullStatsWhenQuiescent == Quiescent => NullRules

\* mainField set, mainFieldFilters emptied again: diffStats is there,
\* selectionStats is null
StatsPartlyNull ==
    /\ Quiescent
    /\ mainField # NULL
    /\ mainFieldFilters = <<>>
    /\ diffStats # NULL
    /\ selectionStats = NULL
    /\ calls = MaxCalls

\* C8: selection is always the matched part of the original dataset under a
\* value mainFieldFilters has held, diffGroup is empty or the matched part of
\* the original dataset under a value comparisonFilters has held; filters of
\* earlier recomputations never accumulate.
GroupsFilterOriginalData ==
    /\ [](/\ selection = applyDividers(data, from.selection)[1]
          /\ \/ diffGroup = <<>>
             \/ diffGroup = applyDividers(data, from.diffGroup)[1])
    /\ [][/\ from'.selection # from.selection => from'.selection = mainFieldFilters'
          /\ from'.diffGroup # from.diffGroup => from'.diffGroup = comparisonFilters']_vars

\* both groups are proper, different parts of the dataset
BothGroupsFiltered ==
    /\ from.selection = <<FHigh>>
    /\ Len(selection) = 3
    /\ from.diffGroup = <<FLow>>
    /\ Len(diffGroup) = 2
    /\ calls = MaxCalls

\* C9: whenever the store is in use and every pipeline has published the
\* inputs it was given, all seven outputs are the results of one
\* recomputation over one input snapshot, the current inputs.
OutputsOfOneSnapshot == Quiescent => Out = Expected(Input)

\* a completed wave with every output filled
FullWaveCompleted ==
    /\ Quiescent
    /\ calls = MaxCalls
    /\ globalStats # NULL
    /\ selectionStats # NULL
    /\ diffStats # NULL
    /\ generalAnalyses # <<>>
    /\ comparisonAnalyses # <<>>

\* C10: every evaluation of generalAnalyses and of comparisonAnalyses is given
\* upstream results that were all computed in one and the same wave.
AnalysesOnSameWave == \A i \in 1..Len(evals) : evals[i].sameWave

\* every derived field is in its empty state
Blank ==
    /\ globalStats = NULL
    /\ selectionStats = NULL
    /\ diffStats = NULL
    /\ generalAnalyses = <<>>
    /\ comparisonAnalyses = <<>>

\* C11: from construction until the first setMainField call with a non-null
\* argument, globalStats, selectionStats and diffStats are null and
\* generalAnalyses and comparisonAnalyses are empty in every state, whatever
\* setMainFieldFilters and setComparisonFilters calls are made meanwhile.
BlankUntilMainFieldSet == ~mainFieldSet => Blank

\* both filter arrays were set and published, and no main field ever was
FiltersSetBeforeMainField ==
    /\ ~mainFieldSet
    /\ Quiescent
    /\ from.selection # <<>>
    /\ Len(selection) < Len(data)
    /\ comparisonFilters # <<>>

\* the store itself, without the history variables
store == <<inputs, outputs, live, throttle, latest, dataset, fieldMetas>>

\* C12: a call of destroy() on a store that is already destroyed changes
\* nothing of the store, so every later setter call and timer task finds the
\* state it would find after one call.
DestroyIdempotent == [][(destroyed /\ destroy) => UNCHANGED store]_vars

\* destroy() was called, then a setter, then destroy() again
DestroyedAgain == call.fn = "destroy" /\ teardown.setters /\ Out # Expected(Input)

\* C13: a setter step replaces its own input with the argument and leaves
\* the other two inputs as they are, and a step of any other operation (a
\* timer task with its recomputation stages, the passing of time, destroy(),
\* export()) leaves all three inputs as they are.
InputsOnlyBySetters ==
    [][/\ \A v \in WideMainFields, fresh \in BOOLEAN :
             SetMainField(v, fresh)
                 => mainField' = v /\ UNCHANGED <<mainFieldFilters, comparisonFilters>>
       /\ \A v \in WideFilterSets, fresh \in BOOLEAN :
             SetMainFieldFilters(v, fresh)
                 => mainFieldFilters' = v /\ UNCHANGED <<mainField, comparisonFilters>>
       /\ \A v \in WideFilterSets, fresh \in BOOLEAN :
             SetComparisonFilters(v, fresh)
                 => comparisonFilters' = v /\ UNCHANGED <<mainField, mainFieldFilters>>
       /\ ((\E c \in Chains : TimerFire(c)) \/ Tick \/ destroy \/ Export)
             => UNCHANGED inputs]_vars

\* setMainField has just replaced the main field while a filter array was set
MainFieldReplaced ==
    /\ call.fn = "setMainField"
    /\ call.arg # NULL
    /\ mainField = call.arg
    /\ mainFieldFilters # <<>>

\* res is the filters of the array filters whose fid is in fields, in their
\* order, each with the name and the semantic type of its field
ExportedFrom(res, filters) ==
    LET known == { i \in 1..Len(filters) :
                     \E j \in 1..Len(fields) : fields[j].fid = filters[i].fid }
    IN  /\ Len(res) = Cardinality(known)
        /\ \A i \in known :
              LET k == Cardinality({ j \in known : j <= i })
                  field == fields[CHOOSE j \in 1..Len(fields) : fields[j].fid = filters[i].fid]
              IN  res[k] = [fid |-> filters[i].fid, lo |-> filters[i].lo,
                            hi |-> filters[i].hi, name |-> field.name,
                            semanticType |-> field.semanticType]

\* C14: export() returns, for each filter array, the filters whose fid is
\* in fields, in their order, each with its field's name and semantic type,
\* and drops the others; mainField is exported as null when it is null or its
\* target does not resolve, else with the target's name and semantic type.
ExportKeepsKnownFilters ==
    call.fn = "export" =>
        /\ ExportedFrom(call.result.mainFieldFilters, mainFieldFilters)
        /\ ExportedFrom(call.result.comparisonFilters, comparisonFilters)
        /\ IF mainField = NULL \/ resolveCompareTarget(mainField, fields) = NULL
           THEN call.result.mainField = NULL
           ELSE call.result.mainField =
                    [fid |-> mainField.fid, aggregator |-> mainField.aggregator,
                     name |-> resolveCompareTarget(mainField, fields).field.name,
                     semanticType |->
                         resolveCompareTarget(mainField, fields).field.semanticType]

\* an export that dropped a filter and exported an unresolved main field
ExportDroppedUnknown ==
    /\ call.fn = "export"
    /\ mainField = UnknownField
    /\ mainFieldFilters = <<FHigh, FUnknown, FLow>>
    /\ Len(call.result.mainFieldFilters) = 2
    /\ call.result.mainField = NULL

\* the mainGroup pipeline has published the current inputs
MainGroupPublished == ~destroyed /\ ~throttle["mainGroup"].hasValue

\* what the mainGroup stage yields for the contents of the inputs
SelectionOf(in) ==
    LET m == MainGroupStage(GlobalStage(in))
    IN  <<m.data, m.stats>>

\* C15: once the recomputation of a setMainFieldFilters call has been
\* published, selection and selectionStats are determined by the contents of
\* the inputs alone; and a call with a new array of the same contents as the
\* published one, the other inputs unchanged, publishes the same selection
\* and the same selectionStats again.
SameContentsSamePublication ==
    /\ [](MainGroupPublished => <<selection, selectionStats>> = SelectionOf(Input))
    /\ [][(/\ MainGroupPublished
           /\ MainGroupPublished'
           /\ \E v \in FilterSets : v = mainFieldFilters /\ SetMainFieldFilters(v, TRUE))
             => selection' = selection /\ selectionStats' = selectionStats]_vars

\* a second call with a new array of the same contents has been published
SameContentsRepublished ==
    /\ call.fn = "setMainFieldFilters"
    /\ call.fresh
    /\ call.same
    /\ MainGroupPublished
    /\ Len(evals) > 0
    /\ selectionStats # NULL

\* a main field citing a fid for which no target field resolves
Unresolved(mf) == mf # NULL /\ resolveCompareTarget(mf, fields) = NULL

\* the evaluations of comparisonAnalyses$ made by the last step; the last of
\* them was given the combined value that comparisonBase$ holds now
ComparisonEvals == { i \in 1..Len(evals) : evals[i].stage = "comparisonAnalyses" }

\* C16: when mainField cites a fid for which no target resolves, the
\* published stats are null and the analyses empty once the inputs are
\* published, also with non-empty filter arrays, and no analyzer is invoked
\* for such a main field.
UnresolvedShortCircuits ==
    /\ (Quiescent /\ Unresolved(mainField)) => Blank
    /\ \A i \in ComparisonEvals :
          (\A j \in ComparisonEvals : j <= i) /\ Unresolved(latest.global.mainField)
              => ~evals[i].invoked

\* C17: after a wave in which a stage function threw, a setter call that
\* changes an input while no throttle window is open still has all its
\* recomputed outputs published.
WavesSurviveFailure ==
    [][(/\ ~destroyed
        /\ \E c \in Chains : ~live[c]
        /\ \A c \in Chains : ~throttle[c].active
        /\ InputChange)
          => Out' = Expected(Input')]_vars

\* C18: in every reachable state the dataset and the field metadata are the
\* values that were passed to the constructor: no operation modifies them.
ConstructorArgumentsReadOnly == dataset = data /\ fieldMetas = fields

\* stages have filtered the dataset, setters were called, the store was
\* destroyed and export() has just returned
AllOperationsRan ==
    /\ call.fn = "export"
    /\ destroyed
    /\ calls = WideCalls
    /\ Len(selection) < Len(data)
    /\ globalStats # NULL

\* part is the rows of the sequence rows at the positions in at, in their order
RowsAt(part, rows, at) ==
    /\ Len(part) = Cardinality(at)
    /\ \A i \in at : part[Cardinality({ j \in at : j <= i })] = rows[i]

\* C19: applyDividers(rows, F) returns a partition of rows: matched is the
\* rows that satisfy all filters of F, unmatched is the other rows, every row
\* (position) is in exactly one of the two, both are in input order, and the
\* input is as it was.
DividersPartition ==
    call.fn = "applyDividers" =>
        LET matching == { i \in 1..Len(call.rows) :
                            \A k \in 1..Len(call.filters) :
                                FilterPasses(call.rows[i], call.filters[k]) }
        IN  /\ RowsAt(call.result[1], call.rows, matching)
            /\ RowsAt(call.result[2], call.rows, (1..Len(call.rows)) \ matching)
            /\ Len(call.result[1]) + Len(call.result[2]) = Len(call.rows)

\* two filters split three rows, one of them without a value for the field
RowsDivided ==
    /\ call.fn = "applyDividers"
    /\ call.filters = <<FLow, FHigh>>
    /\ Len(call.rows) = MaxRows
    /\ Len(call.result[1]) = 1
    /\ \E i \in 1..Len(call.rows) : call.rows[i] = [g |-> "a"]

\* applyDividers(rows, []) returns (rows, [])
EmptyFiltersKeepAll == \A rows \in RowSeqs : applyDividers(rows, <<>>) = <<rows, <<>>>>

\* C20: applyDividers(rows, []) returns (rows, []), and whenever the wave
\* last published by the mainGroup stage was one for an empty
\* mainFieldFilters, selection is the whole original dataset in its order,
\* whether or not mainField is set.
EmptyFiltersSelectAll == EmptyFiltersKeepAll /\ (from.selection = <<>> => selection = data)

\* the filters were emptied again, with a main field set, and that wave has
\* been published
FiltersEmptiedAgain ==
    /\ call.fn = "setMainFieldFilters"
    /\ call.arg = <<>>
    /\ ~call.same
    /\ mainField # NULL
    /\ MainGroupPublished
    /\ from.selection = <<>>
    /\ selection = data

\* a result list is in ranking order: score non-increasing, equal scores by
\* bucket size descending, equal scores and sizes by field id
SortedByScore(list) ==
    \A i, j \in 1..Len(list) :
        i < j =>
            \/ list[i].score > list[j].score
            \/ list[i].score = list[j].score /\ list[i].size > list[j].size
            \/ /\ list[i].score = list[j].score
               /\ list[i].size = list[j].size
               /\ FidRank(list[i].fid) <= FidRank(list[j].fid)

AnalyzerCalled == call.fn \in { "analyzeContributions", "analyzeComparisons" }

\* C21: every list returned by analyzeContributions and by
\* analyzeComparisons, and every published generalAnalyses and
\* comparisonAnalyses, is sorted non-increasing by score, with ties ordered by
\* bucket population size descending and then by field id.
AnalysesSorted ==
    /\ SortedByScore(generalAnalyses)
    /\ SortedByScore(comparisonAnalyses)
    /\ AnalyzerCalled => SortedByScore(call.result)

\* a returned list in which the score decides one place, the bucket size
\* another and the field id a third
AllTiesDecided ==
    /\ AnalyzerCalled
    /\ \E i, j \in 1..Len(call.result) :
           i < j /\ call.result[i].score > call.result[j].score
    /\ \E i, j \in 1..Len(call.result) :
           /\ i < j
           /\ call.result[i].score = call.result[j].score
           /\ call.result[i].size > call.result[j].size
    /\ \E i, j \in 1..Len(call.result) :
           /\ i < j
           /\ call.result[i].score = call.result[j].score
           /\ call.result[i].size = call.result[j].size
           /\ call.result[i].fid # call.result[j].fid

\* C22: analyzeContributions and analyzeComparisons return an empty list
\* for an empty population, and analyzeComparisons for an empty comparison
\* population; so once a wave is complete, an empty selection means empty
\* generalAnalyses and comparisonAnalyses, and an empty diffGroup means an
\* empty comparisonAnalyses.
EmptyPopulationEmptyResult ==
    /\ AnalyzerCalled /\ call.population = <<>> => call.result = <<>>
    /\ call.fn = "analyzeComparisons" /\ call.comparisonPopulation = <<>>
          => call.result = <<>>
    /\ Quiescent /\ selection = <<>>
          => generalAnalyses = <<>> /\ comparisonAnalyses = <<>>
    /\ Quiescent /\ diffGroup = <<>> => comparisonAnalyses = <<>>

\* mainFieldFilters match no row while comparisonFilters match some, with a
\* main field set: both analyzers were given the empty selection
EmptySelectionAnalyzed ==
    /\ Quiescent
    /\ mainField # NULL
    /\ globalStats # NULL
    /\ mainFieldFilters = <<FNone>>
    /\ selection = <<>>
    /\ Len(diffGroup) > 0
    /\ generalAnalyses = <<>>
    /\ comparisonAnalyses = <<>>

\* the step lets a value through the throttle of pipeline c: its subscriber
\* publishes, and a new throttle window opens
Published(c) ==
    /\ throttle'[c] = [active |-> TRUE, remaining |-> ThrottleMs, hasValue |-> FALSE,
                       sendValue |-> NULL]
    /\ throttle[c] # throttle'[c]

\* the input snapshot that is let through: the one the throttle had stored,
\* or the one a setter has just made
PublishedSnapshot(c) == IF throttle[c].hasValue THEN throttle[c].sendValue ELSE Input'

\* the rows of the original dataset that pass every filter
Matching(filters) == SelectSeq(data, LAMBDA r : RowMatches(r, filters))

\* C23: every publication of the compareGroup stage writes diffGroup and
\* diffStats together: if mainField is set, globalStats of the same input
\* snapshot is non-null and comparisonFilters is non-empty, diffGroup is the
\* rows of the original dataset matching comparisonFilters and diffStats is
\* non-null; in every other case diffGroup = [] and diffStats = null.
CompareGroupPublication ==
    [][Published("compareGroup") =>
          \E snap \in { PublishedSnapshot("compareGroup") } :
              IF /\ snap.mainField # NULL
                 /\ GlobalStage(snap).globalStats # NULL
                 /\ Len(snap.comparisonFilters) > 0
              THEN diffGroup' = Matching(snap.comparisonFilters) /\ diffStats' # NULL
              ELSE diffGroup' = <<>> /\ diffStats' = NULL]_vars

\* the compareGroup stage has just published a proper part of the dataset
\* in place of an earlier comparison group
ComparisonGroupReplaced ==
    /\ throttle["compareGroup"].active
    /\ throttle["compareGroup"].remaining = ThrottleMs
    /\ ~throttle["compareGroup"].hasValue
    /\ call.fn = "none"
    /\ from.diffGroup = <<FHigh>>
    /\ Len(diffGroup) = 3
    /\ diffStats # NULL

\* C24 as stated: every publication of the mainGroup stage sets selection to
\* the rows of the original dataset matching mainFieldFilters, whether or not
\* mainField is set, and selectionStats to a non-null value exactly when
\* mainField is set and mainFieldFilters is non-empty.
MainGroupPublicationAsStated ==
    [][Published("mainGroup") =>
          \E snap \in { PublishedSnapshot("mainGroup") } :
              /\ selection' = Matching(snap.mainFieldFilters)
              /\ selectionStats' # NULL
                    <=> snap.mainField # NULL /\ Len(snap.mainFieldFilters) > 0]_vars

\* C24 as amended: the same, with selectionStats non-null exactly when
\* mainField is set, resolveCompareTarget finds its target field and
\* mainFieldFilters is non-empty.
MainGroupPublication ==
    [][Published("mainGroup") =>
          \E snap \in { PublishedSnapshot("mainGroup") } :
              /\ selection' = Matching(snap.mainFieldFilters)
              /\ selectionStats' # NULL
                    <=> /\ snap.mainField # NULL
                        /\ ~Unresolved(snap.mainField)
                        /\ Len(snap.mainFieldFilters) > 0]_vars

\* the mainGroup stage has just published a filtered selection for a main
\* field whose target is not found, without statistics
SelectionWithoutTarget ==
    /\ throttle["mainGroup"].active
    /\ throttle["mainGroup"].remaining = ThrottleMs
    /\ ~throttle["mainGroup"].hasValue
    /\ call.fn = "none"
    /\ mainField = UnknownField
    /\ from.selection = <<FLow>>
    /\ Len(selection) = 2
    /\ selectionStats = NULL

\* C25: every publication of generalAnalyses is empty when mainField is null
\* or globalStats of the same input snapshot is null; otherwise it is the
\* result of analyzeContributions over the selection of that snapshot with
\* baseline globalStats.stats[mainField.aggregator], and the definition of
\* that globalStats is the mainField passed to the analyzer.
GeneralAnalysesPublication ==
    [][Published("generalAnalyses") =>
          \E snap \in { PublishedSnapshot("generalAnalyses") } :
              \E g \in { GlobalStage(snap) } :
                  IF snap.mainField = NULL \/ g.globalStats = NULL
                  THEN generalAnalyses' = <<>>
                  ELSE /\ g.globalStats.definition = snap.mainField
                       /\ generalAnalyses' =
                            analyzeContributions(
                                Matching(snap.mainFieldFilters), fields, snap.mainField,
                                AggValue(g.globalStats.stats, snap.mainField.aggregator))]_vars

\* the generalAnalyses stage has just published the one bucket of a
\* filtered selection, scored against the mean of the whole dataset
ContributionsOfSelection ==
    /\ throttle["generalAnalyses"].active
    /\ throttle["generalAnalyses"].remaining = ThrottleMs
    /\ ~throttle["generalAnalyses"].hasValue
    /\ call.fn = "none"
    /\ mainFieldFilters = <<FLow>>
    /\ Len(generalAnalyses) = 1
    /\ generalAnalyses[1].baseline = AggValue(Aggregate(data, "f"), "mean")
    /\ generalAnalyses[1].inside < generalAnalyses[1].baseline

\* a FieldStats holds the statistics of the rows over the field in its own
\* field entry, which is the target resolved from its definition
StatsOfOwnField(fieldStats, rows) ==
    fieldStats # NULL =>
        /\ fieldStats.field = resolveCompareTarget(fieldStats.definition, fields).field
        /\ fieldStats.stats = Aggregate(rows, fieldStats.field.fid)

\* C26: every published FieldStats holds statistics computed over the field
\* recorded in its own field entry, the target resolved from mainField:
\* globalStats over the dataset, selectionStats over the selection and
\* diffStats over the comparison group are statistics of the same target
\* field, also when the fid of the target differs from mainField.fid.
FieldStatsOverOwnField ==
    /\ StatsOfOwnField(globalStats, data)
    /\ StatsOfOwnField(selectionStats, selection)
    /\ StatsOfOwnField(diffStats, diffGroup)

\* the step is a call of one of the three setters
SetterCall ==
    call'.fn \in { "setMainField", "setMainFieldFilters", "setComparisonFilters" }

\* pipeline c is given the inputs as they are after the step: it publishes
\* them at once or keeps them for the end of its throttle window
Receives(c) ==
    \/ Published(c)
    \/ throttle'[c].hasValue /\ throttle'[c].sendValue = Input'

\* C27: a setter call whose argument is the very reference the input holds
\* triggers no recomputation wave and no publication; a call with another
\* reference triggers a wave in every subscribed pipeline, also when the
\* contents are equal to those of the current value.
ReferenceIdentity ==
    [][/\ SetterCall /\ ~call'.fresh
            => UNCHANGED <<outputs, throttle, latest>> /\ evals' = <<>>
       /\ SetterCall /\ call'.fresh /\ ~(mainField = NULL /\ mainField' = NULL
                                          /\ call'.fn = "setMainField")
            => \A c \in Chains : live[c] => Receives(c)]_vars

\* a setter was given a new array with the contents of the current one, and
\* the mainGroup stage published at once
EqualContentsNewReference ==
    /\ call.fn = "setMainFieldFilters"
    /\ call.fresh
    /\ call.same
    /\ Len(call.arg) > 0
    /\ throttle["mainGroup"].active
    /\ throttle["mainGroup"].remaining = ThrottleMs
    /\ ~throttle["mainGroup"].hasValue
    /\ Len(evals) > 0

\* a FieldStats, when there is one, is what the stage computes over the rows
StatsOverRows(fieldStats, rows) ==
    fieldStats # NULL =>
        fieldStats.stats = statDivision(data, rows, fields, fieldStats.definition.fid)

\* C28: selection and selectionStats are written in one step, and so are
\* diffGroup and diffStats, each pair by the publication of its stage; in
\* every reachable state a non-null selectionStats was computed over exactly
\* the published selection, and a non-null diffStats over exactly the
\* published diffGroup.
GroupAndStatsTogether ==
    /\ [](StatsOverRows(selectionStats, selection) /\ StatsOverRows(diffStats, diffGroup))
    /\ [][/\ (selection' # selection \/ selectionStats' # selectionStats)
               => Published("mainGroup")
          /\ (diffGroup' # diffGroup \/ diffStats' # diffStats)
               => Published("compareGroup")]_vars

\* both groups are filtered parts of the dataset with statistics of their
\* own, while a later input is still waiting in a throttle
StatsBesideGroups ==
    /\ selectionStats # NULL
    /\ diffStats # NULL
    /\ Len(selection) = 2
    /\ Len(diffGroup) = 3
    /\ selectionStats.stats # diffStats.stats
    /\ \E c \in Chains : throttle[c].hasValue

\* C29: a throttle interval that ends without an input change in it
\* evaluates and publishes nothing; so in no pipeline does the number of
\* recomputation waves exceed one, the wave of the construction, plus the
\* number of setter calls that changed an input.
WavesNeedInputChanges ==
    /\ [](waves.on => \A c \in Chains : waves.sent[c] <= 1 + waves.changes)
    /\ [][\A c \in Chains :
             ~throttle[c].hasValue /\ Due(c) /\ TimerFire(c)
                 => /\ UNCHANGED <<outputs, latest, from>>
                    /\ evals' = <<>>
                    /\ waves'.sent = waves.sent]_vars

\* a throttle interval has just ended with nothing to publish, after waves
\* that were published at once and at the end of an interval
IntervalEndedIdle ==
    /\ waves.on
    /\ waves.changes = WaveCalls
    /\ \A c \in Chains : waves.sent[c] = 1 + waves.changes
    /\ call.fn = "none"
    /\ ~throttle["global"].active
    /\ throttle["mainGroup"].active
    /\ throttle["mainGroup"].remaining = 0

\* C30: export() changes no input and no published output, nor anything
\* else of the store, and its result is taken from the inputs as the latest
\* setter calls left them, whatever the published outputs are: inside a
\* throttle interval and after destroy() too.
ExportReadsInputs ==
    [][call'.fn = "export" =>
          /\ UNCHANGED <<inputs, outputs, store>>
          /\ call'.result.mainField = NULL <=> mainField = NULL \/ Unresolved(mainField)
          /\ call'.result.mainField # NULL =>
                 /\ call'.result.mainField.fid = mainField.fid
                 /\ call'.result.mainField.aggregator = mainField.aggregator
          /\ ExportedFrom(call'.result.mainFieldFilters, mainFieldFilters)
          /\ ExportedFrom(call'.result.comparisonFilters, comparisonFilters)]_vars

\* export() was called inside a throttle interval: it returned the main
\* field and the filter of two setter calls that no stage has published yet
ExportAheadOfOutputs ==
    /\ call.fn = "export"
    /\ ~destroyed
    /\ throttle["global"].hasValue
    /\ throttle["mainGroup"].hasValue
    /\ globalStats = NULL
    /\ selection = data
    /\ call.result.mainField # NULL
    /\ Len(call.result.mainFieldFilters) = 1

\* the outcome of the last evaluation of the compareGroup stage, in the
\* published diffStats and in the buffer of comparisonBase$, is not the error
\* of a failed assertion
NoFailedAssertion(stats) == stats # NULL => stats.field # TypeError

\* C31: the non-null assertion of the compareGroup stage never fails: every
\* evaluation that reaches resolveCompareTarget(mainField, fields)!.field
\* finds a target, because the globalStats of its input snapshot is non-null
\* only if the target of that same mainField was found.
AssertionNeverFails ==
    /\ NoFailedAssertion(diffStats)
    /\ latest.compareGroup # NULL => NoFailedAssertion(latest.compareGroup.stats)

\* the assertion was evaluated in both pipelines of the compareGroup stage
\* and found the target of the main field
AssertionReached ==
    /\ Quiescent
    /\ diffStats # NULL
    /\ diffStats.field = fields[1]
    /\ latest.compareGroup # NULL
    /\ latest.compareGroup.stats = diffStats
    /\ calls = WideCalls

(***************************************************************************)
(* UserStore.getNotebooksAndDatasets (part_000).  The method runs up to    *)
(* its await in the step that calls it, and from the settlement of         *)
(* Promise.allSettled to its return in a later step; other calls may       *)
(* start in between.                                                       *)
(***************************************************************************)
UserCalls == 3

\* the variables of the BreakoutStore, which the other components leave alone
storeVars ==
    <<mainField, mainFieldFilters, comparisonFilters, selection, diffGroup,
      globalStats, selectionStats, diffStats, generalAnalyses, comparisonAnalyses,
      live, throttle, latest, from, evals, sinceSetter, sinceContrib,
      sinceComp, calls, teardown, probe, dataset, fieldMetas, mainFieldSet, waves>>

\* this.info?.organizations?.find(...)?.workspaces?.find(...): a reference
\* to the workspace object, NULL for undefined
which(info, organizationName, workspaceName) ==
    LET Find(list, name) ==
            LET hits == { i \in 1..Len(list) : list[i].name = name }
            IN  IF hits = {} THEN 0 ELSE CHOOSE i \in hits : \A k \in hits : i <= k
    IN  IF info = NULL THEN NULL
        ELSE LET i == Find(info.organizations, organizationName)
             IN  IF i = 0 THEN NULL
                 ELSE LET j == Find(info.organizations[i].workspaces, workspaceName)
                      IN  IF j = 0 THEN NULL ELSE [org |-> i, wsp |-> j]

\* the outcomes of one request.get as Promise.allSettled reports them: the
\* response carrying one of the lists under listName, or a rejection
Settlements(listName, lists) ==
    { [status |-> "fulfilled", value |-> (listName :> l)] : l \in lists }
        \cup { [status |-> "rejected", reason |-> [message |-> "Network Error"]] }

\* the .then() after Promise.allSettled
SettledLists(notebookRes, datasetRes) ==
    [notebooks |-> IF notebookRes.status = "fulfilled"
                   THEN notebookRes.value.notebookList ELSE <<>>,
     datasets |-> IF datasetRes.status = "fulfilled"
                  THEN datasetRes.value.datasetList ELSE <<>>,
     errInfo |-> SelectSeq(<< IF notebookRes.status = "rejected"
                              THEN notebookRes.reason ELSE NULL,
                              IF datasetRes.status = "rejected"
                              THEN datasetRes.reason ELSE NULL >>,
                           LAMBDA reason : reason # NULL)]

\* the same continuation without the check of errInfo
StoreListsAlways(wsp, result) ==
    [which |-> [wsp EXCEPT !.notebooks = Array(result.notebooks),
                           !.datasets = Array(result.datasets)],
     returned |-> result]

\* from the check of errInfo to the return: the workspace object afterwards
\* and the value returned
StoreLists(wsp, result) ==
    IF Len(result.errInfo) > 0
    THEN [which |-> wsp, returned |-> NULL]
    ELSE [which |-> [wsp EXCEPT !.notebooks = Array(result.notebooks),
                                !.datasets = Array(result.datasets)],
          returned |-> result]

\* getNotebooksAndDatasets up to its first await
GetNotebooksAndDatasets ==
    \E organizationName \in { "org", "nobody" }, workspaceName \in { "wsp", "nowhere" },
       forceUpdate \in BOOLEAN :
        LET ref == which(userStore.info, organizationName, workspaceName)
            skip == IF ref = NULL THEN TRUE
                    ELSE ~forceUpdate
                         /\ userStore.info.organizations[ref.org].workspaces[ref.wsp]
                                .notebooks # Undefined
        IN  /\ IF skip THEN TRUE ELSE userStore.requests < 2 * UserCalls
            /\ userStore' = IF skip THEN userStore
                            ELSE [userStore EXCEPT !.pending = Append(@, ref),
                                                   !.requests = @ + 2]
            /\ call' = [fn |-> "getNotebooksAndDatasets", at |-> "called",
                        organizationName |-> organizationName,
                        workspaceName |-> workspaceName,
                        forceUpdate |-> forceUpdate,
                        returned |-> IF skip THEN NULL ELSE [awaiting |-> "allSettled"]]
            /\ UNCHANGED <<storeVars, backupModal, connector>>

\* both requests of one waiting call have settled: the rest of the method
ListsSettled ==
    \E k \in 1..Len(userStore.pending),
       notebookRes \in Settlements("notebookList", { <<>>, << "n1" >> }),
       datasetRes \in Settlements("datasetList", { <<>>, << "d1" >> }) :
        LET ref == userStore.pending[k]
            after == StoreLists(userStore.info.organizations[ref.org].workspaces[ref.wsp],
                                SettledLists(notebookRes, datasetRes))
        IN  /\ userStore' =
                   [userStore EXCEPT
                       !.pending = SubSeq(@, 1, k - 1) \o SubSeq(@, k + 1, Len(@)),
                       !.info.organizations[ref.org].workspaces[ref.wsp] = after.which]
            /\ call' = [fn |-> "getNotebooksAndDatasets", at |-> "settled",
                        notebookRes |-> notebookRes, datasetRes |-> datasetRes,
                        returned |-> after.returned]
            /\ UNCHANGED <<storeVars, backupModal, connector>>

UserNext == GetNotebooksAndDatasets \/ ListsSettled

UserSpec == Init /\ [][UserNext]_vars

\* the workspace "wsp" of the organization "org"
TheWorkspace == userStore.info.organizations[1].workspaces[1]

\* C32: getNotebooksAndDatasets sets the workspace's cached notebooks and
\* datasets only when both list requests succeeded, and then both together;
\* when either request failed it returns null and leaves both lists as they
\* were; for an unknown workspace, or one whose notebooks are loaded while
\* forceUpdate is false, it returns null without issuing a request.
ListsCachedTogether ==
    [][call'.fn = "getNotebooksAndDatasets" =>
          /\ call'.at = "called" =>
                /\ TheWorkspace' = TheWorkspace
                /\ (\/ call'.organizationName # "org"
                    \/ call'.workspaceName # "wsp"
                    \/ ~call'.forceUpdate /\ TheWorkspace.notebooks # Undefined)
                   => /\ call'.returned = NULL
                      /\ userStore'.requests = userStore.requests
                      /\ userStore'.pending = userStore.pending
          /\ call'.at = "settled" =>
                /\ userStore'.requests = userStore.requests
                /\ IF call'.notebookRes.status = "fulfilled"
                      /\ call'.datasetRes.status = "fulfilled"
                   THEN /\ TheWorkspace'.notebooks
                              = Array(call'.notebookRes.value.notebookList)
                        /\ TheWorkspace'.datasets
                              = Array(call'.datasetRes.value.datasetList)
                        /\ call'.returned # NULL
                   ELSE /\ call'.returned = NULL
                        /\ TheWorkspace' = TheWorkspace]_vars

\* the last of the calls that issued requests saw both succeed and replaced
\* the two lists an earlier call had loaded
ListsReloaded ==
    /\ call.fn = "getNotebooksAndDatasets"
    /\ call.at = "settled"
    /\ call.returned # NULL
    /\ TheWorkspace.notebooks = Array(<< "n1" >>)
    /\ TheWorkspace.datasets = Array(<< "d1" >>)
    /\ userStore.requests = 2 * UserCalls
    /\ userStore.pending = <<>>

(***************************************************************************)
(* BackupModal.backup (components/backupModal/index.tsx).  A run of backup *)
(* goes from the call to its first await, then from the settlement of the  *)
(* file writing to the next await or the end, then from the settlement of  *)
(* the upload to the end.  UserStore.uploadNotebook catches every error    *)
(* and resolves to false (part_000); the cloud steps of a dataset backup   *)
(* are taken to do the same.  An awaited promise that rejects ends the     *)
(* run at that await: backup has no try, catch or finally.                 *)
(***************************************************************************)

\* backup(download), called from one of the two buttons of the shown modal
Backup ==
    \E download \in BOOLEAN, canBackup \in BOOLEAN, mode \in { "notebook", "dataset" } :
        LET idle == { r \in 1..MaxRuns : backupModal.run[r].at = "idle" }
            refused == ~download /\ (backupModal.busy \/ ~canBackup)
        IN  /\ backupModal.show
            /\ IF refused THEN TRUE ELSE idle # {}
            /\ backupModal' =
                   IF refused THEN backupModal
                   ELSE LET r == CHOOSE r \in idle : \A q \in idle : r <= q
                        IN  [backupModal EXCEPT
                                !.busy = TRUE,
                                !.run[r] = [at |-> "writing", download |-> download,
                                            mode |-> mode]]
            /\ call' = [fn |-> "backup", download |-> download, canBackup |-> canBackup,
                        returned |-> IF refused THEN [value |-> FALSE]
                                     ELSE [awaiting |-> "file"]]
            /\ UNCHANGED <<storeVars, userStore, connector>>

\* writeNotebookFile / writeDatasetFile has settled
FileSettled(r) ==
    /\ backupModal.run[r].at = "writing"
    /\ \E written \in BOOLEAN :
           backupModal' =
               IF ~written
               THEN [backupModal EXCEPT !.run[r].at = "rejected"]
               ELSE IF backupModal.run[r].download
               THEN [backupModal EXCEPT !.run[r].at = "returned", !.busy = FALSE]
               ELSE [backupModal EXCEPT !.run[r].at = "uploading", !.uploads = @ + 1]
    /\ call' = [fn |-> "backup", run |-> r, settled |-> "file"]
    /\ UNCHANGED <<storeVars, userStore, connector>>

\* uploadNotebook, or the cloud steps of a dataset backup, have settled
UploadSettled(r) ==
    /\ backupModal.run[r].at = "uploading"
    /\ \E ok \in BOOLEAN :
           backupModal' =
               [backupModal EXCEPT !.run[r].at = "returned",
                                   !.show = IF ok THEN FALSE ELSE @,
                                   !.busy = FALSE]
    /\ call' = [fn |-> "backup", run |-> r, settled |-> "upload"]
    /\ UNCHANGED <<storeVars, userStore, connector>>

ModalNext ==
    \/ Backup
    \/ \E r \in 1..MaxRuns : FileSettled(r)
    \/ \E r \in 1..MaxRuns : UploadSettled(r)

\* every awaited promise settles: the file writers and the requests end,
\* with a result or with an error
ModalSpec ==
    /\ Init
    /\ [][ModalNext]_vars
    /\ \A r \in 1..MaxRuns : WF_vars(FileSettled(r)) /\ WF_vars(UploadSettled(r))

\* C33: every run of backup that has set busy to true eventually sets it
\* back to false, whether the file writing and the upload succeed or fail;
\* and while busy is true a further non-download call of backup returns
\* false and starts no other run or upload.
BusyAlwaysReset ==
    /\ \A r \in 1..MaxRuns :
           (backupModal.run[r].at = "writing") ~> (backupModal.run[r].at = "returned")
    /\ [][(call'.fn = "backup" /\ "download" \in DOMAIN call'
              /\ ~call'.download /\ backupModal.busy)
          => /\ call'.returned = [value |-> FALSE]
             /\ backupModal' = backupModal]_vars

(***************************************************************************)
(* The database connector (part_001).  Each function posts one request     *)
(* through combinedDatabaseService and awaits it inside a try; requests    *)
(* of several calls may be in flight.  JavaScript values of different      *)
(* kinds are written as records around the value, so that a number, false, *)
(* undefined, an array and an object can be compared.                      *)
(***************************************************************************)
ConnectorCalls == 2
MaxLatency == 2

\* combinedDatabaseService from the settlement of fetch on: the data it
\* resolves to, or the error it throws
combinedDatabaseServiceAnyStatus(response) ==
    IF response.kind = "networkError" THEN [thrown |-> "TypeError: Failed to fetch"]
    ELSE IF response.body.success THEN [data |-> response.body.data]
    ELSE [thrown |-> response.body.message]

combinedDatabaseService(response) ==
    IF response.kind = "networkError" THEN [thrown |-> "TypeError: Failed to fetch"]
    ELSE IF ~response.ok THEN [thrown |-> "Error"]
    ELSE IF response.body.success THEN [data |-> response.body.data]
    ELSE [thrown |-> response.body.message]

\* what the connector function fn returns once its await has settled:
\* the try block's return, or the catch block's
ConnectorReturn(fn, settled, beginTime, endTime) ==
    IF "thrown" \in DOMAIN settled
    THEN CASE fn = "checkServerConnection" -> [boolean |-> FALSE]
           [] fn \in { "fetchDatabaseList", "fetchSchemaList", "fetchTableList" } -> Array(<<>>)
           [] fn = "fetchTableDetail" -> [columns |-> <<>>, rows |-> <<>>]
           [] fn = "fetchQueryResult" -> [rows |-> <<>>]
    ELSE IF fn = "checkServerConnection" THEN [number |-> endTime - beginTime]
    ELSE settled.data

\* a connector function is called: Date.now() is read (checkServerConnection)
\* and the request is posted
ConnectorCall ==
    \E fn \in { "checkServerConnection", "fetchDatabaseList", "fetchSchemaList",
                "fetchTableList", "fetchTableDetail", "fetchQueryResult" } :
        /\ connector.calls < ConnectorCalls
        /\ connector' = [connector EXCEPT
                            !.pending = Append(@, [fn |-> fn, beginTime |-> connector.now]),
                            !.calls = @ + 1]
        /\ call' = [fn |-> fn, at |-> "called"]
        /\ UNCHANGED <<storeVars, userStore, backupModal>>

\* the request of one call settles after some milliseconds, with a network
\* error or with a response, and the function returns
ConnectorSettled ==
    \E k \in 1..Len(connector.pending), ms \in 0..MaxLatency :
        LET fn == connector.pending[k].fn
            datas ==
                CASE fn = "checkServerConnection" -> { Undefined }
                  [] fn \in { "fetchDatabaseList", "fetchSchemaList", "fetchTableList" }
                        -> { Array(<<>>), Array(<< "a" >>) }
                  [] fn = "fetchTableDetail"
                        -> { [columns |-> << "c" >>, rows |-> << << 1 >> >>] }
                  [] fn = "fetchQueryResult" -> { [rows |-> << << 1 >> >>] }
            bodies == { [success |-> TRUE, data |-> d] : d \in datas }
                          \cup { [success |-> FALSE, message |-> "failed"] }
        IN  \E response \in { [kind |-> "networkError"] }
                              \cup { [kind |-> "http", ok |-> ok, body |-> b] :
                                        ok \in BOOLEAN, b \in bodies } :
                /\ connector' =
                       [connector EXCEPT
                           !.pending = SubSeq(@, 1, k - 1) \o SubSeq(@, k + 1, Len(@)),
                           !.now = @ + ms]
                /\ call' = [fn |-> fn, at |-> "settled", response |-> response,
                            returned |-> ConnectorReturn(fn, combinedDatabaseService(response),
                                                         connector.pending[k].beginTime,
                                                         connector.now + ms)]
                /\ UNCHANGED <<storeVars, userStore, backupModal>>

ConnectorNext == ConnectorCall \/ ConnectorSettled

ConnectorSpec == Init /\ [][ConnectorNext]_vars

\* C34 as stated: a connector function never propagates a failure: after a
\* network error, a non-OK status or a response with success false it
\* returns its default ([] for the three lists, {columns: [], rows: []} for
\* fetchTableDetail, {rows: []} for fetchQueryResult, false for
\* checkServerConnection); on success every one of the six returns the
\* response's data unchanged.
ConnectorReturnsDataAsStated ==
    ("response" \in DOMAIN call /\ call.at = "settled") =>
        LET failed == IF call.response.kind = "networkError" THEN TRUE
                      ELSE ~call.response.ok \/ ~call.response.body.success
        IN  IF failed
            THEN /\ call.fn = "checkServerConnection" => call.returned = [boolean |-> FALSE]
                 /\ call.fn \in { "fetchDatabaseList", "fetchSchemaList", "fetchTableList" }
                       => call.returned = Array(<<>>)
                 /\ call.fn = "fetchTableDetail"
                       => call.returned = [columns |-> <<>>, rows |-> <<>>]
                 /\ call.fn = "fetchQueryResult" => call.returned = [rows |-> <<>>]
            ELSE call.returned = call.response.body.data

\* C34, amended: after a failed request every connector function returns
\* its default; on success the five fetch functions return the response's
\* data unchanged, and checkServerConnection returns the milliseconds the
\* request took, a number that is not negative, whatever data came back.
ConnectorReturnsDataOrLatency ==
    ("response" \in DOMAIN call /\ call.at = "settled") =>
        LET failed == IF call.response.kind = "networkError" THEN TRUE
                      ELSE ~call.response.ok \/ ~call.response.body.success
        IN  IF failed
            THEN /\ call.fn = "checkServerConnection" => call.returned = [boolean |-> FALSE]
                 /\ call.fn \in { "fetchDatabaseList", "fetchSchemaList", "fetchTableList" }
                       => call.returned = Array(<<>>)
                 /\ call.fn = "fetchTableDetail"
                       => call.returned = [columns |-> <<>>, rows |-> <<>>]
                 /\ call.fn = "fetchQueryResult" => call.returned = [rows |-> <<>>]
            ELSE IF call.fn = "checkServerConnection"
            THEN /\ DOMAIN call.returned = { "number" }
                 /\ call.returned.number \in 0..(ConnectorCalls * MaxLatency)
            ELSE call.returned = call.response.body.data

\* checkServerConnection got a successful response after another request
\* had settled, and returned the time its own request took
LatencyReturned ==
    /\ "response" \in DOMAIN call
    /\ call.fn = "checkServerConnection"
    /\ call.response.kind = "http"
    /\ call.response.ok
    /\ call.response.body.success
    /\ call.returned = [number |-> MaxLatency]
    /\ connector.now > MaxLatency
    /\ connector.calls = ConnectorCalls

====
